---- MODULE Spec2Model ----
(***************************************************************************)
(* goparsec: a parser is a pure function from an input text to a triple    *)
(* (token, remainder, error).  Texts are sequences of bytes; a parser      *)
(* value is a record naming its constructor, its captured literal (arg)    *)
(* and its captured sub-parsers (subs).  One invocation parser(in) is the  *)
(* state machine below: the constructors that return after one pass are    *)
(* one action each, the `for` loops of Repeat, ExpectUntil and             *)
(* ExpectThrough take one action per iteration.                            *)
(***************************************************************************)
EXTENDS Integers, Sequences, FiniteSets, TLC

VARIABLES parser, in, pc, tok, rem, err, apps

vars == <<parser, in, pc, tok, rem, err, apps>>

----------------------------------------------------------------------------
(* Bounds *)

\* longest input text, in bytes
MaxLen == 3

\* largest number of parsers handed to And(...) / Or(...)
MaxArity == 2

\* the counter of loop iterations saturates here
MaxApps == MaxLen + 3

\* bytes of the input texts: 'A', 'a', 'b', and the two bytes of U+00E9
Alphabet == {65, 97, 98, 195, 169}

----------------------------------------------------------------------------
(* Texts *)

RECURSIVE Texts(_)
Texts(n) ==
    IF n = 0 THEN {<<>>}
    ELSE LET shorter == Texts(n - 1)
         IN  shorter \cup {Append(t, b) : t \in {u \in shorter : Len(u) = n - 1}, b \in Alphabet}

\* Go's in[:n]
Prefix(s, n) == SubSeq(s, 1, n)

\* Go's in[n:]
Suffix(s, n) == SubSeq(s, n + 1, Len(s))

RuneError == 65533

\* utf8.DecodeRuneInString: the first scalar of s and its width in bytes;
\* (RuneError, 0) on the empty text, (RuneError, 1) on an invalid encoding
DecodeRuneInString(s) ==
    IF Len(s) = 0 THEN [r |-> RuneError, size |-> 0]
    ELSE
      LET b0 == s[1]
          Cont(i) == Len(s) >= i /\ s[i] >= 128 /\ s[i] <= 191
          Low(i) == s[i] - 128
      IN  IF b0 < 128 THEN [r |-> b0, size |-> 1]
          ELSE IF b0 >= 194 /\ b0 <= 223 /\ Cont(2)
            THEN [r |-> (b0 - 192) * 64 + Low(2), size |-> 2]
          ELSE IF /\ b0 >= 224 /\ b0 <= 239 /\ Cont(2) /\ Cont(3)
                  /\ (b0 = 224 => s[2] >= 160)
                  /\ (b0 = 237 => s[2] <= 159)
            THEN [r |-> (b0 - 224) * 4096 + Low(2) * 64 + Low(3), size |-> 3]
          ELSE IF /\ b0 >= 240 /\ b0 <= 244 /\ Cont(2) /\ Cont(3) /\ Cont(4)
                  /\ (b0 = 240 => s[2] >= 144)
                  /\ (b0 = 244 => s[2] <= 143)
            THEN [r |-> (b0 - 240) * 262144 + Low(2) * 4096 + Low(3) * 64 + Low(4),
                  size |-> 4]
          ELSE [r |-> RuneError, size |-> 1]

\* `for _, r := range s`: the scalars of s in order, an invalid byte
\* yielding RuneError
RECURSIVE Runes(_)
Runes(s) ==
    IF Len(s) = 0 THEN <<>>
    ELSE LET d == DecodeRuneInString(s)
         IN  <<d.r>> \o Runes(Suffix(s, d.size))

\* unicode.ToUpper on the ASCII and Latin-1 letters
ToUpperRune(r) ==
    IF r >= 97 /\ r <= 122 THEN r - 32
    ELSE IF r >= 224 /\ r <= 254 /\ r # 247 THEN r - 32
    ELSE r

\* strings.ToUpper, as the sequence of scalars its result encodes (two
\* results are equal as byte strings iff they encode the same scalars)
ToUpper(s) == LET rs == Runes(s) IN [i \in 1..Len(rs) |-> ToUpperRune(rs[i])]

----------------------------------------------------------------------------
(* Outcomes *)

Error(kind, expect, got) == [kind |-> kind, expect |-> expect, got |-> got]

Nil == Error("nil", <<>>, <<>>)

ErrNoInput == Error("Ran out of input", <<>>, <<>>)

expectByteError(expect, got) == Error("Expected byte", <<expect>>, <<got>>)

expectRuneError(expect, got) == Error("Expected rune", <<expect>>, <<got>>)

expectStringError(expect, got) == Error("Expect string", expect, got)

expectRuneFromError(expect, got) == Error("Expected rune from string", expect, <<got>>)

expectEOIError == Error("Expected the end of input", <<>>, <<>>)

NoMatch == Error("No match", <<>>, <<>>)

\* the triple a parser returns
Result(t, r, e) == [tok |-> t, rem |-> r, err |-> e]

----------------------------------------------------------------------------
(* Primitive matchers *)

\* checkInputSize(p)(s), r being p(s)
checkInputSize(s, r) ==
    IF Len(s) = 0 THEN Result(<<>>, <<>>, ErrNoInput) ELSE r

\* ExpectByte slicing the token off one byte short
ExpectByteEmptyToken(b, s) ==
    checkInputSize(s,
        IF s[1] # b THEN Result(<<>>, s, expectByteError(b, s[1]))
        ELSE Result(Prefix(s, 0), Suffix(s, 1), Nil))

ExpectByte(b, s) ==
    checkInputSize(s,
        IF s[1] # b THEN Result(<<>>, s, expectByteError(b, s[1]))
        ELSE Result(Prefix(s, 1), Suffix(s, 1), Nil))

\* ExpectRune taking one byte as the token whatever the scalar's width
ExpectRuneByteToken(r, s) ==
    checkInputSize(s,
        LET d == DecodeRuneInString(s)
        IN  IF r # d.r THEN Result(<<>>, s, expectRuneError(r, d.r))
            ELSE Result(Prefix(s, 1), Suffix(s, d.size), Nil))

ExpectRune(r, s) ==
    checkInputSize(s,
        LET d == DecodeRuneInString(s)
        IN  IF r # d.r THEN Result(<<>>, s, expectRuneError(r, d.r))
            ELSE Result(Prefix(s, d.size), Suffix(s, d.size), Nil))

\* ExpectString with its length test turned round
ExpectStringLengthInverted(lit, s) ==
    checkInputSize(s,
        LET slen == Len(lit)
        IN  IF slen < Len(s) THEN Result(<<>>, s, expectStringError(lit, s))
            ELSE IF lit # Prefix(s, slen)
              THEN Result(<<>>, s, expectStringError(lit, Prefix(s, slen)))
            ELSE Result(Prefix(s, slen), Suffix(s, slen), Nil))

ExpectString(lit, s) ==
    checkInputSize(s,
        LET slen == Len(lit)
        IN  IF slen > Len(s) THEN Result(<<>>, s, expectStringError(lit, s))
            ELSE IF lit # Prefix(s, slen)
              THEN Result(<<>>, s, expectStringError(lit, Prefix(s, slen)))
            ELSE Result(Prefix(s, slen), Suffix(s, slen), Nil))

\* ExpectCaseInsensitiveString returning the text after the compared
\* prefix on a mismatch
ExpectCaseInsensitiveStringConsuming(lit, s) ==
    checkInputSize(s,
        LET slen == Len(lit)
        IN  IF slen > Len(s) THEN Result(<<>>, s, expectStringError(lit, s))
            ELSE IF ToUpper(lit) # ToUpper(Prefix(s, slen))
              THEN Result(<<>>, Suffix(s, slen), expectStringError(lit, Prefix(s, slen)))
            ELSE Result(Prefix(s, slen), Suffix(s, slen), Nil))

ExpectCaseInsensitiveString(lit, s) ==
    checkInputSize(s,
        LET slen == Len(lit)
        IN  IF slen > Len(s) THEN Result(<<>>, s, expectStringError(lit, s))
            ELSE IF ToUpper(lit) # ToUpper(Prefix(s, slen))
              THEN Result(<<>>, s, expectStringError(lit, Prefix(s, slen)))
            ELSE Result(Prefix(s, slen), Suffix(s, slen), Nil))

ExpectRuneFrom(set, s) ==
    LET rs == Runes(set)
        m == {rs[i] : i \in 1..Len(rs)}
    IN  checkInputSize(s,
            LET d == DecodeRuneInString(s)
            IN  IF d.r \notin m THEN Result(<<>>, s, expectRuneFromError(set, d.r))
                ELSE Result(Prefix(s, d.size), Suffix(s, d.size), Nil))

ExpectAnyRune(s) ==
    checkInputSize(s,
        LET d == DecodeRuneInString(s)
        IN  Result(Prefix(s, d.size), Suffix(s, d.size), Nil))

ExpectEOI(s) ==
    IF s # <<>> THEN Result(<<>>, s, expectEOIError)
    ELSE Result(<<>>, <<>>, Nil)

----------------------------------------------------------------------------
(* Parser values *)

\* a constructed parser: the constructor's name and what the closure captured
P(kind, arg, subs) == [kind |-> kind, arg |-> arg, subs |-> subs]

\* the state of a loop after one iteration: returned (done) with the triple
\* (tok, rem, err), or going round again with the locals tok and rem
Return(t, r, e) == [done |-> TRUE, tok |-> t, rem |-> r, err |-> e]

Continue(t, r) == [done |-> FALSE, tok |-> t, rem |-> r, err |-> Nil]

----------------------------------------------------------------------------
(* Combinators.  In the loop bodies r is the triple parser(rem) returned   *)
(* in this iteration.                                                      *)

\* And keeping its token as it was instead of appending the sub-token
AndIterNotAppending(s, tk, rm, r) ==
    IF r.err # Nil THEN Return(<<>>, s, r.err)
    ELSE Continue(tk, r.rem)

\* And returning the partially advanced remainder on a failure
AndIterPartial(s, tk, rm, r) ==
    IF r.err # Nil THEN Return(<<>>, rm, r.err)
    ELSE Continue(tk \o r.tok, r.rem)

\* body of And's range loop; s is the input of And, tk and rm its locals
AndIter(s, tk, rm, r) ==
    IF r.err # Nil THEN Return(<<>>, s, r.err)
    ELSE Continue(tk \o r.tok, r.rem)

\* Or returning the first alternative that fails
OrIterInverted(r) ==
    IF r.err # Nil THEN Return(r.tok, r.rem, r.err)
    ELSE Continue(<<>>, <<>>)

\* body of Or's range loop
OrIter(r) ==
    IF r.err = Nil THEN Return(r.tok, r.rem, r.err)
    ELSE Continue(<<>>, <<>>)

\* Optional passing the sub-parser's error on
OptionalPropagating(r) == Result(r.tok, r.rem, r.err)

\* Optional(parser)(s), r being parser(s)
Optional(r) == Result(r.tok, r.rem, Nil)

\* Drop(p)(s), r being p(s)
Drop(r) == Result(<<>>, r.rem, r.err)

\* Repeat as zero-or-more: a failing first application is a success
RepeatFirstZeroOrMore(s, r) ==
    IF r.err # Nil THEN Return(<<>>, s, Nil)
    ELSE Continue(r.tok, r.rem)

\* Repeat up to its loop: r is parser(in)
RepeatFirst(s, r) ==
    IF r.err # Nil THEN Return(<<>>, s, r.err)
    ELSE Continue(r.tok, r.rem)

\* Repeat leaving its loop after one more application, failed or not
RepeatIterOnce(tk, rm, r) ==
    IF r.err # Nil THEN Return(tk, rm, Nil)
    ELSE Return(tk \o r.tok, r.rem, Nil)

\* body of Repeat's for loop
RepeatIter(tk, rm, r) ==
    IF r.err # Nil THEN Return(tk, rm, Nil)
    ELSE Continue(tk \o r.tok, r.rem)

\* ExpectUntil consuming the match it stops at
ExpectUntilIterConsuming(s, tk, rm, r) ==
    IF r.err # Nil
      THEN LET a == ExpectAnyRune(rm)
           IN  IF a.err = ErrNoInput THEN Return(<<>>, s, ErrNoInput)
               ELSE Continue(tk \o a.tok, a.rem)
      ELSE Return(tk \o r.tok, r.rem, Nil)

\* body of ExpectUntil's for loop
ExpectUntilIter(s, tk, rm, r) ==
    IF r.err # Nil
      THEN LET a == ExpectAnyRune(rm)
           IN  IF a.err = ErrNoInput THEN Return(<<>>, s, ErrNoInput)
               ELSE Continue(tk \o a.tok, a.rem)
      ELSE Return(tk, rm, Nil)

\* ExpectThrough leaving the match out of the token
ExpectThroughIterDropping(s, tk, rm, r) ==
    IF r.err # Nil
      THEN LET a == ExpectAnyRune(r.rem)
           IN  IF a.err = ErrNoInput THEN Return(<<>>, s, ErrNoInput)
               ELSE Continue(tk \o a.tok, a.rem)
      ELSE Return(tk, r.rem, r.err)

\* body of ExpectThrough's for loop; parser's remainder has overwritten rem
\* when ExpectAnyRune is applied
ExpectThroughIter(s, tk, rm, r) ==
    IF r.err # Nil
      THEN LET a == ExpectAnyRune(r.rem)
           IN  IF a.err = ErrNoInput THEN Return(<<>>, s, ErrNoInput)
               ELSE Continue(tk \o a.tok, a.rem)
      ELSE Return(tk \o r.tok, r.rem, r.err)

RECURSIVE Run(_, _)
RECURSIVE AndLoop(_, _, _, _, _)
RECURSIVE OrLoop(_, _, _)
RECURSIVE RepeatLoop(_, _, _)
RECURSIVE ExpectUntilLoop(_, _, _, _)
RECURSIVE ExpectThroughLoop(_, _, _, _)

AndLoop(parsers, i, s, tk, rm) ==
    IF i > Len(parsers) THEN Result(tk, rm, Nil)
    ELSE LET st == AndIter(s, tk, rm, Run(parsers[i], rm))
         IN  IF st.done THEN Result(st.tok, st.rem, st.err)
             ELSE AndLoop(parsers, i + 1, s, st.tok, st.rem)

And(parsers, s) == AndLoop(parsers, 1, s, <<>>, s)

OrLoop(parsers, i, s) ==
    IF i > Len(parsers) THEN Result(<<>>, s, NoMatch)
    ELSE LET st == OrIter(Run(parsers[i], s))
         IN  IF st.done THEN Result(st.tok, st.rem, st.err)
             ELSE OrLoop(parsers, i + 1, s)

Or(parsers, s) == OrLoop(parsers, 1, s)

RepeatLoop(p, tk, rm) ==
    LET st == RepeatIter(tk, rm, Run(p, rm))
    IN  IF st.done THEN Result(st.tok, st.rem, st.err)
        ELSE RepeatLoop(p, st.tok, st.rem)

Repeat(p, s) ==
    LET st == RepeatFirst(s, Run(p, s))
    IN  IF st.done THEN Result(st.tok, st.rem, st.err)
        ELSE RepeatLoop(p, st.tok, st.rem)

ExpectUntilLoop(p, s, tk, rm) ==
    LET st == ExpectUntilIter(s, tk, rm, Run(p, rm))
    IN  IF st.done THEN Result(st.tok, st.rem, st.err)
        ELSE ExpectUntilLoop(p, s, st.tok, st.rem)

ExpectUntil(p, s) == ExpectUntilLoop(p, s, <<>>, s)

ExpectThroughLoop(p, s, tk, rm) ==
    LET st == ExpectThroughIter(s, tk, rm, Run(p, rm))
    IN  IF st.done THEN Result(st.tok, st.rem, st.err)
        ELSE ExpectThroughLoop(p, s, st.tok, st.rem)

ExpectThrough(p, s) == ExpectThroughLoop(p, s, <<>>, s)

\* p(s): the call of a parser value
Run(p, s) ==
    CASE p.kind = "ExpectByte" -> ExpectByte(p.arg[1], s)
      [] p.kind = "ExpectRune" -> ExpectRune(p.arg[1], s)
      [] p.kind = "ExpectString" -> ExpectString(p.arg, s)
      [] p.kind = "ExpectCaseInsensitiveString" -> ExpectCaseInsensitiveString(p.arg, s)
      [] p.kind = "ExpectRuneFrom" -> ExpectRuneFrom(p.arg, s)
      [] p.kind = "ExpectAnyRune" -> ExpectAnyRune(s)
      [] p.kind = "ExpectEOI" -> ExpectEOI(s)
      [] p.kind = "And" -> And(p.subs, s)
      [] p.kind = "Or" -> Or(p.subs, s)
      [] p.kind = "Optional" -> Optional(Run(p.subs[1], s))
      [] p.kind = "Drop" -> Drop(Run(p.subs[1], s))
      [] p.kind = "Repeat" -> Repeat(p.subs[1], s)
      [] p.kind = "ExpectUntil" -> ExpectUntil(p.subs[1], s)
      [] p.kind = "ExpectThrough" -> ExpectThrough(p.subs[1], s)

----------------------------------------------------------------------------
(* The parsers and inputs of the model *)

Inputs == Texts(MaxLen)

ByteP(b) == P("ExpectByte", <<b>>, <<>>)
RuneP(r) == P("ExpectRune", <<r>>, <<>>)
StringP(lit) == P("ExpectString", lit, <<>>)
CaseInsensitiveP(lit) == P("ExpectCaseInsensitiveString", lit, <<>>)
RuneFromP(set) == P("ExpectRuneFrom", set, <<>>)
AnyRuneP == P("ExpectAnyRune", <<>>, <<>>)
EOIP == P("ExpectEOI", <<>>, <<>>)
AndP(ps) == P("And", <<>>, ps)
OrP(ps) == P("Or", <<>>, ps)
Unary(kind, p) == P(kind, <<>>, <<p>>)

\* primitives that consume at least one byte whenever they succeed
Consuming ==
    {ByteP(97), ByteP(195), RuneP(97), RuneP(233), AnyRuneP,
     StringP(<<97>>), StringP(<<97, 98>>), StringP(<<195, 169>>),
     CaseInsensitiveP(<<97>>), CaseInsensitiveP(<<65, 98>>),
     RuneFromP(<<97, 195, 169>>), RuneFromP(<<195>>)}

Primitives == Consuming \cup {StringP(<<>>), EOIP}

\* the primitives wrapped one level deep
Inner == {ByteP(97), RuneP(233), StringP(<<97, 98>>), EOIP}

\* sub-parsers: every loop inside them ends on every input (a nested Repeat
\* wraps a consuming primitive)
Subs ==
    Primitives
    \cup {Unary(k, q) : k \in {"Optional", "Drop", "ExpectUntil", "ExpectThrough"},
                        q \in Inner}
    \cup {Unary("Repeat", q) : q \in Inner \cap Consuming}
    \cup {AndP(<<ByteP(97), StringP(<<97, 98>>)>>), OrP(<<StringP(<<97, 98>>), ByteP(97)>>)}

\* the parsers And and Or are built from
Args ==
    {ByteP(97), StringP(<<97, 98>>), StringP(<<>>), EOIP, AnyRuneP,
     Unary("Optional", RuneP(233)), Unary("Drop", ByteP(97)),
     Unary("Repeat", ByteP(97)), Unary("ExpectUntil", StringP(<<97, 98>>))}

RECURSIVE Tuples(_)
Tuples(n) ==
    IF n = 0 THEN {<<>>}
    ELSE LET shorter == Tuples(n - 1)
         IN  shorter \cup {Append(t, q) : t \in {u \in shorter : Len(u) = n - 1}, q \in Args}

Parsers ==
    Subs
    \cup {Unary(k, q) : k \in {"Optional", "Drop", "Repeat", "ExpectUntil", "ExpectThrough"},
                        q \in Subs}
    \cup {AndP(ps) : ps \in Tuples(MaxArity)}
    \cup {OrP(ps) : ps \in Tuples(MaxArity)}

----------------------------------------------------------------------------
(* One invocation parser(in) *)

Init ==
    /\ parser \in Parsers
    /\ in \in Inputs
    /\ pc = "call"
    /\ tok = <<>>
    /\ rem = in
    /\ err = Nil
    /\ apps = 0

\* the invocation returns r
Finish(r) ==
    /\ pc' = "done"
    /\ tok' = r.tok
    /\ rem' = r.rem
    /\ err' = r.err
    /\ UNCHANGED <<parser, in, apps>>

\* one more application of the sub-parser inside a for loop left the loop in
\* state st
Iterate(st) ==
    /\ pc' = IF st.done THEN "done" ELSE "loop"
    /\ tok' = st.tok
    /\ rem' = st.rem
    /\ err' = st.err
    /\ apps' = IF apps < MaxApps THEN apps + 1 ELSE apps
    /\ UNCHANGED <<parser, in>>

CallExpectByte ==
    /\ pc = "call" /\ parser.kind = "ExpectByte"
    /\ Finish(ExpectByte(parser.arg[1], in))

CallExpectRune ==
    /\ pc = "call" /\ parser.kind = "ExpectRune"
    /\ Finish(ExpectRune(parser.arg[1], in))

CallExpectString ==
    /\ pc = "call" /\ parser.kind = "ExpectString"
    /\ Finish(ExpectString(parser.arg, in))

CallExpectCaseInsensitiveString ==
    /\ pc = "call" /\ parser.kind = "ExpectCaseInsensitiveString"
    /\ Finish(ExpectCaseInsensitiveString(parser.arg, in))

CallExpectRuneFrom ==
    /\ pc = "call" /\ parser.kind = "ExpectRuneFrom"
    /\ Finish(ExpectRuneFrom(parser.arg, in))

CallExpectAnyRune ==
    /\ pc = "call" /\ parser.kind = "ExpectAnyRune"
    /\ Finish(ExpectAnyRune(in))

CallExpectEOI ==
    /\ pc = "call" /\ parser.kind = "ExpectEOI"
    /\ Finish(ExpectEOI(in))

CallAnd ==
    /\ pc = "call" /\ parser.kind = "And"
    /\ Finish(And(parser.subs, in))

CallOr ==
    /\ pc = "call" /\ parser.kind = "Or"
    /\ Finish(Or(parser.subs, in))

CallOptional ==
    /\ pc = "call" /\ parser.kind = "Optional"
    /\ Finish(Optional(Run(parser.subs[1], in)))

CallDrop ==
    /\ pc = "call" /\ parser.kind = "Drop"
    /\ Finish(Drop(Run(parser.subs[1], in)))

\* Repeat's first application of parser, before its loop
CallRepeat ==
    /\ pc = "call" /\ parser.kind = "Repeat"
    /\ Iterate(RepeatFirst(in, Run(parser.subs[1], in)))

\* one iteration of Repeat's loop
RepeatStep ==
    /\ pc = "loop" /\ parser.kind = "Repeat"
    /\ Iterate(RepeatIter(tok, rem, Run(parser.subs[1], rem)))

\* one iteration of ExpectUntil's loop
ExpectUntilStep ==
    /\ pc \in {"call", "loop"} /\ parser.kind = "ExpectUntil"
    /\ Iterate(ExpectUntilIter(in, tok, rem, Run(parser.subs[1], rem)))

\* one iteration of ExpectThrough's loop
ExpectThroughStep ==
    /\ pc \in {"call", "loop"} /\ parser.kind = "ExpectThrough"
    /\ Iterate(ExpectThroughIter(in, tok, rem, Run(parser.subs[1], rem)))

Next ==
    \/ CallExpectByte
    \/ CallExpectRune
    \/ CallExpectString
    \/ CallExpectCaseInsensitiveString
    \/ CallExpectRuneFrom
    \/ CallExpectAnyRune
    \/ CallExpectEOI
    \/ CallAnd
    \/ CallOr
    \/ CallOptional
    \/ CallDrop
    \/ CallRepeat
    \/ RepeatStep
    \/ ExpectUntilStep
    \/ ExpectThroughStep

Spec == Init /\ [][Next]_vars

\* a started invocation keeps running: nothing else is scheduled
FairSpec == Spec /\ WF_vars(Next)

----------------------------------------------------------------------------
(* Properties *)

TypeOK ==
    /\ parser \in Parsers
    /\ in \in Inputs
    /\ pc \in {"call", "loop", "done"}
    /\ apps \in 0..MaxApps

Done == pc = "done"

\* the sub-parser a unary combinator captured
Sub == parser.subs[1]

\* the parser is built without Drop
RECURSIVE DropFree(_)
DropFree(p) ==
    /\ p.kind # "Drop"
    /\ \A i \in 1..Len(p.subs) : DropFree(p.subs[i])

\* C1: a successful invocation of a parser built without Drop returns a
\* token and a remainder whose concatenation is the original input.
C1_ContentPreservation ==
    (Done /\ DropFree(parser) /\ err = Nil) => tok \o rem = in

\* a scan over a multi-byte scalar has ended with text on both sides
C1_Witness ==
    /\ Done /\ DropFree(parser) /\ err = Nil
    /\ parser.kind = "ExpectThrough"
    /\ Len(tok) >= 2 /\ rem # <<>> /\ apps >= 2

\* C2: an invocation that fails returns the empty token and the original
\* input as remainder.
C2_NoPartialConsumption ==
    (Done /\ err # Nil) => (tok = <<>> /\ rem = in)

\* a scan has run through a non-empty input without a match
C2_Witness ==
    /\ Done /\ err = ErrNoInput
    /\ parser.kind = "ExpectUntil"
    /\ Len(in) >= 2 /\ tok = <<>> /\ rem = in

----------------------------------------------------------------------------
(* And *)

\* the remainder And's i-th parser leaves, each parser being applied to the
\* remainder of the one before it and the first to the input
RECURSIVE RemAfter(_, _, _)
RemAfter(parsers, i, s) ==
    IF i = 0 THEN s
    ELSE Run(parsers[i], RemAfter(parsers, i - 1, s)).rem

\* what And's i-th parser returns
SubResult(parsers, i, s) == Run(parsers[i], RemAfter(parsers, i - 1, s))

\* the sub-tokens of the first n parsers, concatenated in order
RECURSIVE Concat(_, _, _)
Concat(parsers, n, s) ==
    IF n = 0 THEN <<>>
    ELSE Concat(parsers, n - 1, s) \o SubResult(parsers, n, s).tok

\* the parsers of And that fail on the remainder handed to them
Failing(parsers, s) ==
    {i \in 1..Len(parsers) :
        /\ SubResult(parsers, i, s).err # Nil
        /\ \A j \in 1..(i - 1) : SubResult(parsers, j, s).err = Nil}

\* C3: And returns the concatenated sub-tokens and the last remainder when
\* every parser succeeds on the remainder of the one before it; otherwise
\* the empty token, the original input and the first failing parser's error.
C3_And ==
    (Done /\ parser.kind = "And") =>
        LET ps == parser.subs
            failing == Failing(ps, in)
        IN  IF failing = {}
              THEN /\ err = Nil
                   /\ tok = Concat(ps, Len(ps), in)
                   /\ rem = RemAfter(ps, Len(ps), in)
              ELSE \E k \in failing :
                   /\ err = SubResult(ps, k, in).err
                   /\ tok = <<>>
                   /\ rem = in

\* the second parser of an And failed after the first had consumed input
C3_Witness ==
    /\ Done /\ parser.kind = "And" /\ Len(parser.subs) = 2
    /\ SubResult(parser.subs, 1, in).err = Nil
    /\ RemAfter(parser.subs, 1, in) # in
    /\ SubResult(parser.subs, 2, in).err # Nil
    /\ err = SubResult(parser.subs, 2, in).err
    /\ rem = in

----------------------------------------------------------------------------
(* Or *)

\* the alternatives of Or that succeed on the original input
Succeeding(parsers, s) == {i \in 1..Len(parsers) : Run(parsers[i], s).err = Nil}

\* C4: Or returns verbatim the result of the first alternative that succeeds
\* on the original input, and "No match" with the input untouched when none
\* does.
C4_Or ==
    (Done /\ parser.kind = "Or") =>
        LET ok == Succeeding(parser.subs, in)
        IN  IF ok # {}
              THEN LET k == CHOOSE i \in ok : \A j \in ok : i <= j
                   IN  Result(tok, rem, err) = Run(parser.subs[k], in)
              ELSE Result(tok, rem, err) = Result(<<>>, in, NoMatch)

\* two alternatives succeed with different results and the first one wins
C4_Witness ==
    /\ Done /\ parser.kind = "Or" /\ Len(parser.subs) = 2
    /\ Succeeding(parser.subs, in) = {1, 2}
    /\ Run(parser.subs[1], in) # Run(parser.subs[2], in)
    /\ Result(tok, rem, err) = Run(parser.subs[1], in)

----------------------------------------------------------------------------
(* Optional *)

\* C5: Optional always succeeds, with the sub-parser's token and remainder
\* when it succeeds and with the empty token and the input when it fails.
C5_Optional ==
    (Done /\ parser.kind = "Optional") =>
        LET r == Run(Sub, in)
        IN  /\ err = Nil
            /\ IF r.err = Nil THEN tok = r.tok /\ rem = r.rem
               ELSE tok = <<>> /\ rem = in

\* Optional has turned the exhaustion of its sub-parser on the empty input
\* into a success
C5_Witness ==
    /\ Done /\ parser.kind = "Optional"
    /\ in = <<>> /\ Run(Sub, in).err = ErrNoInput
    /\ err = Nil /\ tok = <<>> /\ rem = <<>>

----------------------------------------------------------------------------
(* Repeat *)

\* C6: Repeat returns a failure exactly when its sub-parser fails on the
\* original input, then with the sub-parser's error; a success has at least
\* one successful application behind it.
C6_RepeatMinimality ==
    (Done /\ parser.kind = "Repeat") =>
        LET r == Run(Sub, in)
        IN  /\ (err # Nil) <=> (r.err # Nil)
            /\ (err # Nil) => (err = r.err)
            /\ (err = Nil) => (apps >= 2)

\* Repeat has failed on a non-empty input with its sub-parser's mismatch
C6_Witness ==
    /\ Done /\ parser.kind = "Repeat"
    /\ in # <<>> /\ err # Nil /\ err # ErrNoInput
    /\ err = Run(Sub, in).err

----------------------------------------------------------------------------
(* Termination *)

\* C7: the loops of Repeat, ExpectUntil and ExpectThrough apply their
\* sub-parser at most once per position of the input (its length plus the
\* end position) before the invocation returns.
C7_Termination == apps <= Len(in) + 1

\* under FairSpec: every invocation returns
C7_Returns == <>Done

\* the scans end within that bound whatever the sub-parser
ScanTerminates ==
    (parser.kind \in {"ExpectUntil", "ExpectThrough"}) => apps <= Len(in) + 1

\* a Repeat whose sub-parser succeeds without consuming goes on for ever
RepeatDiverges ==
    (/\ parser.kind = "Repeat" /\ pc = "loop"
     /\ Run(Sub, rem).err = Nil /\ Run(Sub, rem).rem = rem) => (pc' = "loop")

RepeatDivergesAlways == [][RepeatDiverges]_vars

----------------------------------------------------------------------------
(* ExpectUntil and ExpectThrough *)

\* the offsets of s at which a scalar starts when s is decoded from the
\* front, the end of s included
RECURSIVE Aligned(_)
Aligned(s) ==
    IF Len(s) = 0 THEN {0}
    ELSE LET size == DecodeRuneInString(s).size
         IN  {0} \cup {size + k : k \in Aligned(Suffix(s, size))}

\* the aligned offsets of s at which p succeeds
Hits(p, s) == {k \in Aligned(s) : Run(p, Suffix(s, k)).err = Nil}

\* C8: ExpectUntil stops at the first aligned offset at which its sub-parser
\* succeeds, with the text before it as token and the text from it on as
\* remainder; with no such offset it fails with ErrNoInput, the empty token
\* and the original input.
C8_ExpectUntil ==
    (Done /\ parser.kind = "ExpectUntil") =>
        LET hits == Hits(Sub, in)
        IN  IF hits # {}
              THEN LET k == CHOOSE i \in hits : \A j \in hits : i <= j
                   IN  /\ err = Nil
                       /\ tok = Prefix(in, k)
                       /\ rem = Suffix(in, k)
              ELSE /\ err = ErrNoInput
                   /\ tok = <<>>
                   /\ rem = in

\* the scan has stopped inside the input, in front of a match that would
\* consume
C8_Witness ==
    /\ Done /\ parser.kind = "ExpectUntil" /\ err = Nil
    /\ tok # <<>> /\ rem # <<>>
    /\ Run(Sub, rem).err = Nil /\ Run(Sub, rem).tok # <<>>
    /\ Run(Sub, in).err # Nil

\* C9: ExpectThrough succeeds exactly when ExpectUntil does; it then returns
\* ExpectUntil's token followed by the sub-parser's token on ExpectUntil's
\* remainder, and the sub-parser's remainder; when they fail both return the
\* empty token, the input and ErrNoInput.
C9_ThroughVsUntil ==
    (Done /\ parser.kind = "ExpectThrough") =>
        LET u == ExpectUntil(Sub, in)
        IN  IF u.err = Nil
              THEN LET q == Run(Sub, u.rem)
                   IN  /\ err = Nil
                       /\ tok = u.tok \o q.tok
                       /\ rem = q.rem
              ELSE /\ u = Result(<<>>, in, ErrNoInput)
                   /\ Result(tok, rem, err) = u

\* both scans succeed, ExpectUntil short of the match and ExpectThrough
\* past it
C9_Witness ==
    /\ Done /\ parser.kind = "ExpectThrough" /\ err = Nil
    /\ ExpectUntil(Sub, in).err = Nil
    /\ ExpectUntil(Sub, in).tok # <<>>
    /\ ExpectUntil(Sub, in).tok # tok
    /\ ExpectUntil(Sub, in).rem # rem

----------------------------------------------------------------------------
(* ExpectString *)

\* the prefix of s of the literal's length exists and equals the literal
HasPrefix(lit, s) == Len(lit) <= Len(s) /\ Prefix(s, Len(lit)) = lit

\* C10 as stated: ExpectString succeeds exactly when the input has the
\* literal as prefix, the empty literal and the empty input included.
C10_AsStated ==
    (Done /\ parser.kind = "ExpectString") =>
        LET lit == parser.arg
        IN  /\ (err = Nil) <=> HasPrefix(lit, in)
            /\ (err = Nil) => (tok = lit /\ rem = Suffix(in, Len(lit)))
            /\ (err # Nil) => (tok = <<>> /\ rem = in)

\* C10: ExpectString succeeds exactly when the input is not empty and has
\* the literal as prefix; the token is then the literal and the remainder
\* the input without it; every failure leaves the input unconsumed, and on
\* the empty input even the empty literal fails, with ErrNoInput.
C10_ExpectString ==
    (Done /\ parser.kind = "ExpectString") =>
        LET lit == parser.arg
        IN  /\ (err = Nil) <=> (in # <<>> /\ HasPrefix(lit, in))
            /\ (err = Nil) => (tok = lit /\ rem = Suffix(in, Len(lit)))
            /\ (err # Nil) => (tok = <<>> /\ rem = in)
            /\ (in = <<>>) => (err = ErrNoInput)

\* the empty literal has been refused on the empty input
C10_Witness ==
    /\ Done /\ parser.kind = "ExpectString"
    /\ parser.arg = <<>> /\ in = <<>>
    /\ err = ErrNoInput /\ tok = <<>> /\ rem = <<>>

----------------------------------------------------------------------------
(* Non-empty tokens *)

\* the parser is built without the constructors spec.md names as zero-width
RECURSIVE NoNamedZeroWidth(_)
NoNamedZeroWidth(p) ==
    /\ p.kind \notin {"ExpectEOI", "Optional", "Drop"}
    /\ \A i \in 1..Len(p.subs) : NoNamedZeroWidth(p.subs[i])

\* the parser is built without any construct that can succeed with an empty
\* token: the three above, ExpectUntil, an empty literal, And of no parsers
RECURSIVE NoZeroWidth(_)
NoZeroWidth(p) ==
    /\ p.kind \notin {"ExpectEOI", "Optional", "Drop", "ExpectUntil"}
    /\ (p.kind \in {"ExpectString", "ExpectCaseInsensitiveString"}) => (p.arg # <<>>)
    /\ (p.kind = "And") => (p.subs # <<>>)
    /\ \A i \in 1..Len(p.subs) : NoZeroWidth(p.subs[i])

\* C11 as stated: a success of a parser built without ExpectEOI, Optional
\* and Drop has a non-empty token.
C11_AsStated ==
    (Done /\ err = Nil /\ NoNamedZeroWidth(parser)) => tok # <<>>

\* C11: a success of a parser built without ExpectEOI, Optional, Drop,
\* ExpectUntil, an empty literal and an And of no parsers has a non-empty
\* token.
C11_NonEmptyToken ==
    (Done /\ err = Nil /\ NoZeroWidth(parser)) => tok # <<>>

\* a sequence of two consuming parsers has succeeded
C11_Witness ==
    /\ Done /\ err = Nil /\ NoZeroWidth(parser)
    /\ parser.kind = "And" /\ Len(parser.subs) = 2
    /\ Len(tok) >= 2

\* the successes with an empty token outside the three named constructors:
\* an empty literal, an And of no parsers, an ExpectUntil matching at once
EmptyTokenSources ==
    (Done /\ err = Nil /\ NoNamedZeroWidth(parser) /\ tok = <<>>) =>
        ~NoZeroWidth(parser)

----------------------------------------------------------------------------
(* And of one parser *)

\* C12: And of a single parser returns the token, the remainder and the
\* error that parser returns on the same input.
C12_AndIdentity ==
    (Done /\ parser.kind = "And" /\ Len(parser.subs) = 1) =>
        Result(tok, rem, err) = Run(parser.subs[1], in)

\* And of one guarded parser has failed on the empty input as that parser
\* does, with ErrNoInput and the empty remainder
C12_Witness ==
    /\ Done /\ parser.kind = "And" /\ Len(parser.subs) = 1
    /\ in = <<>>
    /\ Run(parser.subs[1], in) = Result(<<>>, <<>>, ErrNoInput)
    /\ Result(tok, rem, err) = Result(<<>>, <<>>, ErrNoInput)

----------------------------------------------------------------------------
(* Repeat is greedy *)

\* k copies of the parser p, one per application
Copies(p, k) == [i \in 1..k |-> p]

\* C13: a success of Repeat is k >= 1 successful applications in a row, the
\* first on the input and each next on the remainder of the one before; the
\* token is their tokens in order, the remainder the last one's, and the
\* sub-parser fails on that remainder.
C13_RepeatGreedy ==
    (Done /\ parser.kind = "Repeat" /\ err = Nil) =>
        \E k \in 1..MaxApps :
            LET ps == Copies(Sub, k)
            IN  /\ \A i \in 1..k : SubResult(ps, i, in).err = Nil
                /\ tok = Concat(ps, k, in)
                /\ rem = RemAfter(ps, k, in)
                /\ Run(Sub, rem).err # Nil

\* Repeat has stopped inside the input after at least two matches
C13_Witness ==
    /\ Done /\ parser.kind = "Repeat" /\ err = Nil
    /\ apps >= 3 /\ Len(tok) >= 2 /\ rem # <<>>
    /\ Run(Sub, rem).err # Nil /\ Run(Sub, rem).err # ErrNoInput

====
